---- MODULE Spec2Model ----
(***************************************************************************)
(* Copyright filter of the BotChannel Telegram bot.                        *)
(*                                                                         *)
(* Strings are sequences of one-character strings, so that lowercasing,    *)
(* substring tests, whitespace splitting and the regular expressions of    *)
(* bot/copyright_filter.py are computed character by character.            *)
(* Risk scores are exact rationals [num, den]; the threshold is held in    *)
(* hundredths (0.7 is 70).                                                 *)
(***************************************************************************)
EXTENDS Integers, Sequences, FiniteSets, TLC

----------------------------------------------------------------------------
(* Characters and the str methods the filter uses *)

UpperAlpha ==
  <<"A", "B", "C", "D", "E", "F", "G", "H", "I", "J", "K", "L", "M",
    "N", "O", "P", "Q", "R", "S", "T", "U", "V", "W", "X", "Y", "Z">>

LowerAlpha ==
  <<"a", "b", "c", "d", "e", "f", "g", "h", "i", "j", "k", "l", "m",
    "n", "o", "p", "q", "r", "s", "t", "u", "v", "w", "x", "y", "z">>

DigitChars == {"0", "1", "2", "3", "4", "5", "6", "7", "8", "9"}

Whitespace == {" ", "\t", "\n"}

Range(s) == {s[i] : i \in 1..Len(s)}

Letters == Range(UpperAlpha) \cup Range(LowerAlpha)

\* str.lower() on one character
LowerChar(c) ==
  IF c \in Range(UpperAlpha)
    THEN LowerAlpha[CHOOSE i \in 1..Len(UpperAlpha) : UpperAlpha[i] = c]
    ELSE c

\* str.lower()
str_lower(s) == [i \in 1..Len(s) |-> LowerChar(s[i])]

\* s[i:].startswith(sub)
StartsWithAt(s, sub, i) ==
  /\ i + Len(sub) - 1 <= Len(s)
  /\ \A j \in 1..Len(sub) : s[i + j - 1] = sub[j]

\* sub in s
str_in(sub, s) == \E i \in 1..(Len(s) + 1) : StartsWithAt(s, sub, i)

RECURSIVE LStrip(_)
LStrip(s) ==
  IF s # <<>> /\ s[1] \in Whitespace THEN LStrip(Tail(s)) ELSE s

RECURSIVE RStrip(_)
RStrip(s) ==
  IF s # <<>> /\ s[Len(s)] \in Whitespace
    THEN RStrip(SubSeq(s, 1, Len(s) - 1))
    ELSE s

\* str.strip()
str_strip(s) == RStrip(LStrip(s))

RECURSIVE SplitFrom(_, _, _)
SplitFrom(s, i, cur) ==
  IF i > Len(s)
    THEN IF cur = <<>> THEN <<>> ELSE <<cur>>
    ELSE IF s[i] \in Whitespace
      THEN IF cur = <<>>
             THEN SplitFrom(s, i + 1, <<>>)
             ELSE <<cur>> \o SplitFrom(s, i + 1, <<>>)
      ELSE SplitFrom(s, i + 1, Append(cur, s[i]))

\* str.split(): the maximal runs of non-whitespace characters
str_split(s) == SplitFrom(s, 1, <<>>)

RECURSIVE join_space(_)
\* ' '.join(words)
join_space(words) ==
  IF words = <<>> THEN <<>>
  ELSE IF Len(words) = 1 THEN words[1]
  ELSE words[1] \o <<" ">> \o join_space(Tail(words))

----------------------------------------------------------------------------
(* Bounds and inputs *)

\* Number of text messages the bot receives
MaxMsgs == 2

\* Number of POST /api/add-keyword requests the web server receives
MaxWeb == 1

\* Number of operations (messages, keyword commands, web requests) in a run
\* under the default environment
MaxOps == 3

\* Number of operations in a run under any environment
MaxOpsAnyEnv == 2

\* Length of the strings preprocess_text is called with
MaxLen == 3

\* Length of the keyword lists keyword_detection is called with
MaxKeywords == 2

\* Number of words of the processed texts the risk score is computed for
MaxWords == 22

Msgs == 1..MaxMsgs

Webs == 1..MaxWeb

\* Telegram user ids: 1001 is a super admin, 1002 an active admin of
\* admins.json, 1003 a deactivated admin
Users == {1001, 1002, 1003}

SUPER_ADMINS == {1001}

admins_json ==
  <<[user_id |-> 1002, is_active |-> TRUE], [user_id |-> 1003, is_active |-> FALSE]>>

\* message.text; the empty text is a message without text, and one text is
\* nothing but whitespace
Texts ==
  {<<>>,
   <<" ">>,
   <<"H", "e", "l", "l", "o">>,
   <<"m", "a", "g", "n", "e", "t", " ", "l", "i", "n", "k">>,
   <<"T", "o", "r", "r", "e", "n", "t", " ", "l", "i", "n", "k">>}

\* The message of the specification's first scenario
MovieText ==
  <<"D", "o", "w", "n", "l", "o", "a", "d", " ", "t", "h", "e", " ", "l", "a",
    "t", "e", "s", "t", " ", "m", "o", "v", "i", "e", " ", "f", "o", "r", " ",
    "f", "r", "e", "e", " ", "h", "e", "r", "e">>

\* The message of the specification's second scenario
HelloText ==
  <<"H", "e", "l", "l", "o", ",", " ", "h", "o", "w", " ", "a", "r", "e", " ",
    "y", "o", "u", " ", "t", "o", "d", "a", "y", "?">>

\* A text that every risk pattern matches
AllPatternsText ==
  <<"p", "i", "r", "a", "t", "e", "d", " ", "t", "o", "r", "r", "e", "n", "t",
    " ", "l", "i", "n", "k", " ", "d", "o", "w", "n", "l", "o", "a", "d", " ",
    "h", "d", " ", "m", "o", "v", "i", "e", " ", "w", "a", "t", "c", "h", " ",
    "f", "r", "e", "e">>

\* A text of 21 words that one risk pattern matches
LongText ==
  <<"w", "a", "t", "c", "h", " ", "a", " ", "a", " ", "a", " ", "a", " ", "a",
    " ", "a", " ", "a", " ", "a", " ", "a", " ", "a", " ", "a", " ", "a", " ",
    "a", " ", "a", " ", "a", " ", "a", " ", "a", " ", "a", " ", "a", " ", "f",
    "r", "e", "e">>

\* A text with a URL
UrlText ==
  <<"S", "e", "e", " ", "H", "T", "T", "P", ":", "/", "/", "t", ".", "m", "e",
    "/", "x", "?", "a", "=", "1", " ", "n", "o", "w">>

\* A text in upper case with two default keywords
UpperText ==
  <<"F", "R", "E", "E", " ", "M", "O", "V", "I", "E", " ", "t", "o", "r", "r",
    "e", "n", "t">>

\* A text with five default keywords
ManyKeywordsText ==
  <<"p", "i", "r", "a", "t", "e", "d", " ", "c", "r", "a", "c", "k", "e",
    "d", " ", "l", "e", "a", "k", "e", "d", " ", "t", "o", "r", "r", "e",
    "n", "t", " ", "d", "m", "c", "a">>

\* A text that repeats one risk phrase three times
RepeatText ==
  <<"t", "o", "r", "r", "e", "n", "t", " ", "l", "i", "n", "k", " ", "t",
    "o", "r", "r", "e", "n", "t", " ", "l", "i", "n", "k", " ", "t", "o",
    "r", "r", "e", "n", "t", " ", "l", "i", "n", "k">>

\* Texts the functions of the filter are called with, besides message texts
SampleTexts ==
  {MovieText, HelloText, AllPatternsText, LongText, UrlText, UpperText,
   ManyKeywordsText, RepeatText}

TableTexts == Texts \cup SampleTexts

\* The characters of the short strings preprocess_text is called with: a
\* letter in each case, a digit, whitespace, punctuation, and a letter that
\* is not ASCII
Alphabet == {"A", "b", "7", " ", "\t", "!", "_", "é"}

RECURSIVE StringsUpTo(_)
\* The strings over Alphabet of at most n characters
StringsUpTo(n) ==
  IF n = 0 THEN {<<>>}
  ELSE LET shorter == StringsUpTo(n - 1)
       IN shorter \cup {Append(s, c) : s \in {t \in shorter : Len(t) = n - 1},
                                       c \in Alphabet}

\* Keywords of the lists keyword_detection is called with
KeywordPool ==
  {<<"t", "o", "r", "r", "e", "n", "t">>,
   <<"f", "r", "e", "e", " ", "m", "o", "v", "i", "e">>,
   <<"l", "i", "n", "k">>,
   <<"M", "o", "v", "i", "e">>,
   <<"z", "z">>}

RECURSIVE ListsUpTo(_)
\* The lists of at most n keywords of KeywordPool, no keyword twice: the
\* commands and the web form refuse a keyword the list has
ListsUpTo(n) ==
  IF n = 0 THEN {<<>>}
  ELSE LET shorter == ListsUpTo(n - 1)
       IN shorter \cup
            {Append(p[1], p[2]) :
               p \in {q \in {t \in shorter : Len(t) = n - 1} \X KeywordPool :
                        q[2] \notin Range(q[1])}}

\* sentiment.polarity of TextBlob, in hundredths
Polarities == {-100, -50, -31, -30, 0, 100}

\* What follows /addkeyword or /removekeyword, and the "keyword" of the web form
KeywordInputs ==
  {<<>>,
   <<"x">>,
   <<" ", "L", "i", "n", "k">>,
   <<"t", "o", "r", "r", "e", "n", "t">>}

\* COPYRIGHT_THRESHOLD of the environment: unset, a number (in hundredths), or
\* text that float() does not accept
ThresholdEnv ==
  {[kind |-> "unset", value |-> 0],
   [kind |-> "number", value |-> 0],
   [kind |-> "number", value |-> 30],
   [kind |-> "number", value |-> 150],
   [kind |-> "garbage", value |-> 0]}

\* AI_ENABLED of the environment; <<>> stands for unset
AiEnabledEnv ==
  {<<>>, <<"T", "R", "U", "E">>, <<"f", "a", "l", "s", "e">>}

----------------------------------------------------------------------------
(* preprocess_text *)

\* The characters of [$-_] (0x24..0x5F) that are neither letters nor digits,
\* with the ones the class names on their own: @ . & + ! * \ ( ) ,
UrlPunct ==
  {"$", "%", "&", "'", "(", ")", "*", "+", ",", "-", ".", "/", ":", ";",
   "<", "=", ">", "?", "@", "[", "\\", "]", "^", "_", "!"}

UrlClass == Letters \cup DigitChars \cup UrlPunct

HttpPrefix == <<"h", "t", "t", "p", ":", "/", "/">>

HttpsPrefix == <<"h", "t", "t", "p", "s", ":", "/", "/">>

\* Length of the http[s]?:// prefix at i, 0 when there is none
UrlPrefixLen(s, i) ==
  IF StartsWithAt(s, HttpsPrefix, i) THEN Len(HttpsPrefix)
  ELSE IF StartsWithAt(s, HttpPrefix, i) THEN Len(HttpPrefix)
  ELSE 0

\* The URL pattern matches at i: the prefix and at least one class character
UrlMatchAt(s, i) ==
  /\ UrlPrefixLen(s, i) > 0
  /\ i + UrlPrefixLen(s, i) <= Len(s)
  /\ s[i + UrlPrefixLen(s, i)] \in UrlClass

RECURSIVE UrlRunEnd(_, _)
\* First index after the greedy run of class characters starting at i
UrlRunEnd(s, i) ==
  IF i <= Len(s) /\ s[i] \in UrlClass THEN UrlRunEnd(s, i + 1) ELSE i

RECURSIVE StripUrlsFrom(_, _)
StripUrlsFrom(s, i) ==
  IF i > Len(s) THEN <<>>
  ELSE IF UrlMatchAt(s, i)
    THEN StripUrlsFrom(s, UrlRunEnd(s, i + UrlPrefixLen(s, i)))
    ELSE <<s[i]>> \o StripUrlsFrom(s, i + 1)

\* re.sub(url pattern, '', text)
strip_urls(s) == StripUrlsFrom(s, 1)

\* re.sub(r'[^a-zA-Z0-9\s]', ' ', text)
strip_special(s) ==
  [i \in 1..Len(s) |->
     IF s[i] \in Letters \cup DigitChars \cup Whitespace THEN s[i] ELSE " "]

\* preprocess_text without the ' '.join(text.split()) of line 57
PreprocessNoCollapse(text) ==
  IF text = <<>> THEN <<>>
  ELSE strip_special(strip_urls(str_lower(text)))

preprocess_text(text) ==
  IF text = <<>> THEN <<>>
  ELSE join_space(str_split(strip_special(strip_urls(str_lower(text)))))

----------------------------------------------------------------------------
(* keyword_detection *)

DEFAULT_COPYRIGHT_KEYWORDS ==
  <<
    <<"p", "i", "r", "a", "t", "e", "d">>,
    <<"i", "l", "l", "e", "g", "a", "l", " ", "d", "o", "w", "n", "l", "o", "a", "d">>,
    <<"t", "o", "r", "r", "e", "n", "t">>,
    <<"c", "r", "a", "c", "k", "e", "d">>,
    <<"l", "e", "a", "k", "e", "d">>,
    <<"c", "o", "p", "y", "r", "i", "g", "h", "t", " ", "i", "n", "f", "r", "i", "n", "g", "e", "m", "e", "n", "t">>,
    <<"d", "m", "c", "a">>,
    <<"u", "n", "a", "u", "t", "h", "o", "r", "i", "z", "e", "d">>,
    <<"b", "o", "o", "t", "l", "e", "g">>,
    <<"c", "a", "m", " ", "r", "i", "p">>,
    <<"s", "c", "r", "e", "e", "n", "e", "r">>,
    <<"d", "v", "d", "r", "i", "p">>,
    <<"b", "r", "r", "i", "p">>,
    <<"w", "e", "b", "r", "i", "p">>,
    <<"m", "o", "v", "i", "e", " ", "l", "e", "a", "k">>,
    <<"f", "r", "e", "e", " ", "m", "o", "v", "i", "e">>,
    <<"d", "o", "w", "n", "l", "o", "a", "d", " ", "m", "o", "v", "i", "e">>,
    <<"w", "a", "t", "c", "h", " ", "f", "r", "e", "e">>
  >>

\* keyword.lower() in text_lower
KeywordIn(keyword, text) == str_in(str_lower(keyword), str_lower(text))

\* The keywords the inputs of the model can put in the store, and the defaults
KnownKeywords ==
  Range(DEFAULT_COPYRIGHT_KEYWORDS) \cup {str_lower(str_strip(r)) : r \in KeywordInputs}
    \cup KeywordPool

\* KeywordIn over the texts and keywords of the model, evaluated once
KeywordInTable == [t \in TableTexts |-> {k \in KnownKeywords : KeywordIn(k, t)}]

\* keyword_detection with the test of line 67 against the text as it was sent
KeywordDetectionCaseSensitive(text, keywords) ==
  SelectSeq(keywords, LAMBDA k : str_in(str_lower(k), text))

keyword_detection(text, keywords) ==
  SelectSeq(keywords,
            LAMBDA k : IF text \in TableTexts /\ k \in KnownKeywords
                         THEN k \in KeywordInTable[text]
                         ELSE KeywordIn(k, text))

----------------------------------------------------------------------------
(* The risk patterns of ai_content_analysis *)

\* A pattern is a sequence of alternations joined by ".*"
copyright_patterns ==
  <<
    << {<<"d", "o", "w", "n", "l", "o", "a", "d">>}, {<<"m", "o", "v", "i", "e">>} >>,
    << {<<"w", "a", "t", "c", "h">>}, {<<"f", "r", "e", "e">>} >>,
    << {<<"p", "i", "r", "a", "t">>, <<"c", "r", "a", "c", "k">>, <<"l", "e", "a", "k">>} >>,
    << {<<"t", "o", "r", "r", "e", "n", "t">>, <<"m", "a", "g", "n", "e", "t">>,
        <<"d", "i", "r", "e", "c", "t">>},
       {<<"l", "i", "n", "k">>} >>,
    << {<<"h", "d">>, <<"f", "u", "l", "l">>}, {<<"m", "o", "v", "i", "e">>},
       {<<"f", "r", "e", "e">>} >>
  >>

RECURSIVE MatchRest(_, _, _)
\* The remaining alternations, each after ".*" (which stops at a newline)
MatchRest(parts, s, i) ==
  IF parts = <<>> THEN TRUE
  ELSE \E j \in i..(Len(s) + 1) :
         /\ \A k \in i..(j - 1) : s[k] # "\n"
         /\ \E a \in parts[1] :
              StartsWithAt(s, a, j) /\ MatchRest(Tail(parts), s, j + Len(a))

\* re.search(pattern, s) is not None
re_search(parts, s) ==
  \E j \in 1..(Len(s) + 1) :
    \E a \in parts[1] :
      StartsWithAt(s, a, j) /\ MatchRest(Tail(parts), s, j + Len(a))

RECURSIVE CountFrom(_, _)
\* for pattern in copyright_patterns: (from pattern p on)
\*   if re.search(pattern, processed_text): pattern_matches += 1
CountFrom(p, processed_text) ==
  IF p > Len(copyright_patterns) THEN 0
  ELSE (IF re_search(copyright_patterns[p], processed_text) THEN 1 ELSE 0)
         + CountFrom(p + 1, processed_text)

\* pattern_matches with one count for every place a pattern matches at
CountPatternsEveryMatch(processed_text) ==
  LET Places(parts) ==
        Cardinality({j \in 1..(Len(processed_text) + 1) :
                       \E a \in parts[1] :
                         /\ StartsWithAt(processed_text, a, j)
                         /\ MatchRest(Tail(parts), processed_text, j + Len(a))})
  IN Places(copyright_patterns[1]) + Places(copyright_patterns[2])
       + Places(copyright_patterns[3]) + Places(copyright_patterns[4])
       + Places(copyright_patterns[5])

\* The loop of lines 97-100 that counts the patterns found in the processed text
CountPatterns(processed_text) == CountFrom(1, processed_text)

\* processed_text, pattern_matches and len(processed_text.split()) of a text
Signals(text) ==
  LET processed_text == preprocess_text(text)
  IN [processed_text |-> processed_text,
      pattern_matches |-> CountPatterns(processed_text),
      total_words |-> Len(str_split(processed_text))]

\* Signals over the texts of the model, evaluated once
SignalsTable == [t \in TableTexts |-> Signals(t)]

TextSignals(text) == IF text \in TableTexts THEN SignalsTable[text] ELSE Signals(text)

----------------------------------------------------------------------------
(* ai_content_analysis *)

Min(a, b) == IF a <= b THEN a ELSE b

\* The denominator of a score computed over total_words words
ScoreDen(total_words) ==
  100 * Len(copyright_patterns) * (IF total_words > 0 THEN total_words ELSE 1)

ZeroScore == [num |-> 0, den |-> ScoreDen(1)]

\* score >= threshold, the threshold in hundredths
ScoreGE(score, threshold) == score.num * 100 >= threshold * score.den

ScoreEq(a, b) == a.num * b.den = b.num * a.den

\* risk_score without the min(risk_score, 1.0) of line 123
RiskScoreNoClamp(pattern_matches, total_words, polarity) ==
  LET den == ScoreDen(total_words)
      pattern_term == 40 * pattern_matches * (den \div (100 * Len(copyright_patterns)))
      sentiment_term == IF polarity < -30 THEN (20 * den) \div 100 ELSE 0
      length_term ==
        IF total_words > 20 /\ pattern_matches > 0 THEN (20 * den) \div 100 ELSE 0
      density_term ==
        IF total_words > 0
          THEN Min(200 * pattern_matches * Len(copyright_patterns), (30 * den) \div 100)
          ELSE 0
  IN [num |-> pattern_term + sentiment_term + length_term + density_term,
      den |-> den]

\* risk_score with the length test of line 113 as >= 20
RiskScoreLongAt20(pattern_matches, total_words, polarity) ==
  LET den == ScoreDen(total_words)
      pattern_term == 40 * pattern_matches * (den \div (100 * Len(copyright_patterns)))
      sentiment_term == IF polarity < -30 THEN (20 * den) \div 100 ELSE 0
      length_term ==
        IF total_words >= 20 /\ pattern_matches > 0 THEN (20 * den) \div 100 ELSE 0
      density_term ==
        IF total_words > 0
          THEN Min(200 * pattern_matches * Len(copyright_patterns), (30 * den) \div 100)
          ELSE 0
  IN [num |-> Min(pattern_term + sentiment_term + length_term + density_term, den),
      den |-> den]

\* risk_score of lines 102-123: the four terms, then min(risk_score, 1.0).
\* Everything is in units of 1 / ScoreDen(total_words); polarity in hundredths.
RiskScore(pattern_matches, total_words, polarity) ==
  LET den == ScoreDen(total_words)
      pattern_term == 40 * pattern_matches * (den \div (100 * Len(copyright_patterns)))
      sentiment_term == IF polarity < -30 THEN (20 * den) \div 100 ELSE 0
      length_term ==
        IF total_words > 20 /\ pattern_matches > 0 THEN (20 * den) \div 100 ELSE 0
      density_term ==
        IF total_words > 0
          THEN Min(200 * pattern_matches * Len(copyright_patterns), (30 * den) \div 100)
          ELSE 0
  IN [num |-> Min(pattern_term + sentiment_term + length_term + density_term, den),
      den |-> den]

\* What TextBlob does with the processed text: it raises, or gives a polarity
Blobs ==
  {[raises |-> TRUE, polarity |-> 0],
   [raises |-> FALSE, polarity |-> -50],
   [raises |-> FALSE, polarity |-> 0]}

\* The body of ai_content_analysis without its try/except
AiBody(available, enabled, text, blob) ==
  IF ~available \/ ~enabled
    THEN [raised |-> FALSE, score |-> ZeroScore, pattern_matches |-> 0,
          analysis |-> "AI analysis not available"]
  ELSE LET signals == TextSignals(text) IN
    IF signals.processed_text = <<>>
      THEN [raised |-> FALSE, score |-> ZeroScore, pattern_matches |-> 0,
            analysis |-> "No meaningful content"]
    ELSE IF blob.raises
      THEN [raised |-> TRUE, score |-> ZeroScore, pattern_matches |-> 0,
            analysis |-> "raise"]
    ELSE [raised |-> FALSE,
          score |-> RiskScore(signals.pattern_matches, signals.total_words,
                              blob.polarity),
          pattern_matches |-> signals.pattern_matches,
          analysis |-> "Risk"]

\* ai_content_analysis without the except clause of lines 134-136
AiNoCatch(available, enabled, text, blob) ==
  AiBody(available, enabled, text, blob)

\* ai_content_analysis with only the AI_AVAILABLE half of its first test
AiIgnoreFlag(available, enabled, text, blob) ==
  LET r == AiBody(available, TRUE, text, blob) IN
    IF r.raised
      THEN [raised |-> FALSE, score |-> ZeroScore, pattern_matches |-> 0,
            analysis |-> "Analysis error"]
      ELSE r

\* ai_content_analysis(text) under the given availability and enable flag
AiContentAnalysis(available, enabled, text, blob) ==
  LET r == AiBody(available, enabled, text, blob) IN
    IF r.raised
      THEN [raised |-> FALSE, score |-> ZeroScore, pattern_matches |-> 0,
            analysis |-> "Analysis error"]
      ELSE r

----------------------------------------------------------------------------
(* The decision of message_filter_handler *)

\* active_keywords: the texts of the records with is_active
ActiveKeywords(keywords_data) ==
  LET active == SelectSeq(keywords_data, LAMBDA k : k.is_active)
  IN [i \in 1..Len(active) |-> active[i].keyword]

NoFallback(active_keywords) == active_keywords

\* if not active_keywords: active_keywords = DEFAULT_COPYRIGHT_KEYWORDS
EffectiveKeywords(active_keywords) ==
  IF active_keywords = <<>> THEN DEFAULT_COPYRIGHT_KEYWORDS ELSE active_keywords

ShouldFilterAnd(detected_keywords, score, threshold) ==
  detected_keywords # <<>> /\ ScoreGE(score, threshold)

\* should_filter with the comparison of line 174 the wrong way round
ShouldFilterReversed(detected_keywords, score, threshold) ==
  detected_keywords # <<>> \/ score.num * 100 <= threshold * score.den

\* should_filter after the two ifs of lines 170-176
ShouldFilter(detected_keywords, score, threshold) ==
  detected_keywords # <<>> \/ ScoreGE(score, threshold)

\* f"{score:.2f}": the score to the nearest hundredth, in hundredths
Format2f(score) == (200 * score.num + score.den) \div (2 * score.den)

\* filter_reason with every matched keyword in the keyword reason
FilterReasonAllKeywords(detected_keywords, score, threshold) ==
  (IF detected_keywords # <<>>
     THEN <<[kind |-> "Keywords", keywords |-> detected_keywords, score |-> 0]>>
     ELSE <<>>)
  \o (IF ScoreGE(score, threshold)
        THEN <<[kind |-> "AI Risk", keywords |-> <<>>, score |-> Format2f(score)]>>
        ELSE <<>>)

\* filter_reason after the two ifs of lines 170-176: "Keywords: ..." with
\* detected_keywords[:3], then "AI Risk: ..." with the score
FilterReason(detected_keywords, score, threshold) ==
  (IF detected_keywords # <<>>
     THEN <<[kind |-> "Keywords",
             keywords |-> SubSeq(detected_keywords, 1, Min(3, Len(detected_keywords))),
             score |-> 0]>>
     ELSE <<>>)
  \o (IF ScoreGE(score, threshold)
        THEN <<[kind |-> "AI Risk", keywords |-> <<>>, score |-> Format2f(score)]>>
        ELSE <<>>)

\* The verdict of one message: what lines 152-176 compute
Verdict(available, enabled, threshold, keywords_data, text, blob) ==
  LET detected_keywords ==
        keyword_detection(text, EffectiveKeywords(ActiveKeywords(keywords_data)))
      ai_analysis == AiContentAnalysis(available, enabled, text, blob)
  IN [raised |-> ai_analysis.raised,
      detected |-> detected_keywords,
      score |-> ai_analysis.score,
      should_filter |-> ShouldFilter(detected_keywords, ai_analysis.score, threshold),
      filter_reason |-> FilterReason(detected_keywords, ai_analysis.score, threshold)]

----------------------------------------------------------------------------
(* State *)

VARIABLES
  phase,                \* bot.config: "boot", "running", or "failed" (import raised)
  AI_ENABLED,           \* bot.config.AI_ENABLED
  AI_AVAILABLE,         \* copyright_filter.AI_AVAILABLE: the NLP imports worked
  COPYRIGHT_THRESHOLD,  \* bot.config.COPYRIGHT_THRESHOLD, in hundredths
  concurrent_updates,   \* the bot runs handlers concurrently (else one at a time)
  disk,                 \* data/keywords.json: [data, valid, size]; the list
                        \* when the bytes are valid JSON, and the byte count
  bot_write,            \* the file the bot thread has open for writing
  msg,                  \* message_filter_handler, one per message
  web,                  \* api_add_keyword, one per request
  ops,                  \* number of operations still to come
  env,                  \* os.environ: [threshold, ai_enabled]
  reply,                \* the last reply to a keyword command
  ever_saved,           \* history: keyword texts that were in a saved file
  removed,              \* history: keywords whose /removekeyword has succeeded
  load_log,             \* history: the last load_json_data("keywords.json")
  call                  \* one call of a function of the filter: its arguments
                        \* and, once it has returned, its result

vars ==
  <<phase, AI_ENABLED, AI_AVAILABLE, COPYRIGHT_THRESHOLD, concurrent_updates,
    disk, bot_write, msg, web, ops, env, reply, ever_saved, removed, load_log,
    call>>

config_vars ==
  <<phase, AI_ENABLED, AI_AVAILABLE, COPYRIGHT_THRESHOLD, concurrent_updates, env>>

\* What a run of the bot and the web server leaves alone
machine_vars ==
  <<config_vars, disk, bot_write, msg, web, ops, reply, ever_saved, removed, load_log>>

IdleMsg ==
  [pc |-> "idle", user |-> 0, text |-> <<>>,
   textblob |-> [raises |-> FALSE, polarity |-> 0],
   analysed |-> FALSE, keywords_data |-> <<>>, detected |-> <<>>,
   score |-> ZeroScore, should_filter |-> FALSE,
   deleted |-> FALSE, warned |-> FALSE, scheduled |-> FALSE, counted |-> FALSE,
   removed_at_start |-> {}]

RECURSIVE Digits(_)
\* len(str(n)) for n >= 0
Digits(n) == IF n < 10 THEN 1 ELSE 1 + Digits(n \div 10)

\* The bytes json.dump(data, f, indent=2) writes for one keyword record and
\* for a list, the timestamps all of one length
RecordBytes(record) ==
  139 + Len(record.keyword) + Digits(record.added_by)
      + (IF record.is_active THEN 0 ELSE 1) + Digits(record.detection_count)

RECURSIVE ByteLen(_)
ByteLen(data) ==
  IF data = <<>> THEN 2 ELSE RecordBytes(Head(data)) + ByteLen(Tail(data))

\* A file that holds the list data
FileOf(data) == [data |-> data, valid |-> TRUE, size |-> ByteLen(data)]

\* open(filepath, 'w') of save_json_data: the file is truncated
Truncated == [data |-> <<>>, valid |-> FALSE, size |-> 0]

IdleWeb ==
  [pc |-> "idle", keywords |-> <<>>, before |-> Truncated, status |-> 0]

NoWrite ==
  [open |-> FALSE, owner |-> "none", m |-> 0, keyword |-> <<>>, data |-> <<>>,
   before |-> Truncated]

\* No function of the filter is being called on its own
NoCall ==
  [fn |-> "none", done |-> FALSE,
   text |-> <<>>, keywords |-> <<>>, keywords_data |-> <<>>,
   pattern_matches |-> 0, total_words |-> 1, polarity |-> 0,
   available |-> TRUE, enabled |-> TRUE, threshold |-> 70,
   blob |-> [raises |-> FALSE, polarity |-> 0],
   processed_text |-> <<>>, detected |-> <<>>, score |-> ZeroScore,
   should_filter |-> FALSE, answered |-> FALSE, reasons |-> <<>>]

\* The process has started and nothing is imported yet
Boot ==
  /\ phase = "boot"
  /\ AI_ENABLED = FALSE
  /\ AI_AVAILABLE \in BOOLEAN
  /\ COPYRIGHT_THRESHOLD = 0
  /\ concurrent_updates \in BOOLEAN
  /\ bot_write = NoWrite
  /\ msg = [m \in Msgs |-> IdleMsg]
  /\ web = [w \in Webs |-> IdleWeb]
  /\ reply = "none"
  /\ removed = {}
  /\ load_log = [result |-> <<>>, saves |-> {}]

\* A run of the bot and the web server
NoCalls == call = NoCall

\* Any environment, and the keywords.json that init_file_storage writes
Init ==
  /\ Boot
  /\ NoCalls
  /\ env \in [threshold : ThresholdEnv, ai_enabled : AiEnabledEnv]
  /\ ops = MaxOpsAnyEnv
  /\ disk = FileOf(<<>>)
  /\ ever_saved = {}

\* The keyword an earlier run of the bot has left in keywords.json
StoredKeyword == <<"l", "i", "n", "k">>

\* The default environment (neither variable is set), and a keywords.json
\* that holds one keyword, added by the super admin in an earlier run
InitStore ==
  /\ Boot
  /\ NoCalls
  /\ env = [threshold |-> [kind |-> "unset", value |-> 0], ai_enabled |-> <<>>]
  /\ ops = MaxOps
  /\ disk = FileOf(<<[keyword |-> StoredKeyword, added_by |-> 1001,
                       is_active |-> TRUE, detection_count |-> 0]>>)
  /\ ever_saved = {StoredKeyword}

----------------------------------------------------------------------------
(* bot/config.py *)

\* float(os.getenv("COPYRIGHT_THRESHOLD", "0.7"))
ParseThreshold(setting) ==
  IF setting.kind = "unset" THEN [ok |-> TRUE, value |-> 70]
  ELSE IF setting.kind = "number" THEN [ok |-> TRUE, value |-> setting.value]
  ELSE [ok |-> FALSE, value |-> 0]

\* os.getenv("AI_ENABLED", "true").lower() == "true"
ParseAiEnabled(setting) ==
  str_lower(IF setting = <<>> THEN <<"t", "r", "u", "e">> ELSE setting)
    = <<"t", "r", "u", "e">>

\* The module bot.config is imported
LoadConfig ==
  /\ phase = "boot"
  /\ IF ParseThreshold(env.threshold).ok
       THEN /\ phase' = "running"
            /\ AI_ENABLED' = ParseAiEnabled(env.ai_enabled)
            /\ COPYRIGHT_THRESHOLD' = ParseThreshold(env.threshold).value
       ELSE /\ phase' = "failed"
            /\ UNCHANGED <<AI_ENABLED, COPYRIGHT_THRESHOLD>>
  /\ UNCHANGED <<call, AI_AVAILABLE, concurrent_updates, env, disk, bot_write, msg, web, ops,
                 reply, ever_saved, removed, load_log>>

----------------------------------------------------------------------------
(* bot/database.py and bot/utils.py *)

\* is_admin without the is_active test of line 23
IsAdminAnyRecord(user_id) ==
  \/ user_id \in SUPER_ADMINS
  \/ \E i \in 1..Len(admins_json) : admins_json[i].user_id = user_id

is_admin(user_id) ==
  \/ user_id \in SUPER_ADMINS
  \/ \E i \in 1..Len(admins_json) :
       admins_json[i].user_id = user_id /\ admins_json[i].is_active

\* load_json_data("keywords.json"): the list, or [] when json.load raises
load_json_data == IF disk.valid THEN disk.data ELSE <<>>

\* The saves of keywords.json that are between open() and close()
OpenSaves ==
  (IF bot_write.open
     THEN {[before |-> bot_write.before, after |-> bot_write.data]} ELSE {})
  \cup {[before |-> web[w].before, after |-> web[w].keywords] :
          w \in {v \in Webs : web[v].pc = "writing"}}

LogLoad == load_log' = [result |-> load_json_data, saves |-> OpenSaves]

KeywordTexts(keywords) == {keywords[i].keyword : i \in 1..Len(keywords)}

\* json.dump and the close of save_json_data: the buffered bytes go to the
\* start of the file. Bytes that another save has written since the open and
\* that reach further stay behind the list, and the file is not JSON.
Closed(data) ==
  IF ByteLen(data) >= disk.size
    THEN FileOf(data)
    ELSE [data |-> <<>>, valid |-> FALSE, size |-> disk.size]

Saved(file) ==
  IF file.valid THEN ever_saved \cup KeywordTexts(file.data) ELSE ever_saved

\* The bot is a single thread: a handler runs from one await to the next
BotThreadFree == phase = "running" /\ bot_write.owner = "none"

\* No message handler is suspended at an await
NoHandlerInFlight == \A m \in Msgs : msg[m].pc \in {"idle", "done", "failed"}

BotCanStart == BotThreadFree /\ (concurrent_updates \/ NoHandlerInFlight)

----------------------------------------------------------------------------
(* message_filter_handler *)

\* TextBlob runs only on non-empty processed text, with the analysis on
TextBlobRuns(text) ==
  AI_AVAILABLE /\ AI_ENABLED /\ TextSignals(text).processed_text # <<>>

\* The handler acts on every verdict, as if line 184 were not there
AfterVerdictAlways(v) ==
  IF v.raised THEN "failed" ELSE "delete"

\* if should_filter: (line 184) the handler goes on to delete the message,
\* and returns otherwise
AfterVerdict(v) ==
  IF v.raised THEN "failed"
  ELSE IF v.should_filter THEN "delete"
  ELSE "done"

\* Lines 138-184: the early returns, the load, the analysis, the decision
MsgStart(m, user, text, blob) ==
  /\ BotCanStart
  /\ msg[m].pc = "idle"
  /\ m > 1 => msg[m - 1].pc # "idle"
  /\ ops > 0
  /\ ops' = ops - 1
  /\ IF text = <<>> \/ is_admin(user)
       THEN /\ msg' = [msg EXCEPT ![m] =
                         [IdleMsg EXCEPT !.pc = "done", !.user = user, !.text = text]]
            /\ UNCHANGED load_log
       ELSE LET keywords_data == load_json_data
                v == Verdict(AI_AVAILABLE, AI_ENABLED, COPYRIGHT_THRESHOLD,
                             keywords_data, text, blob)
            IN /\ msg' = [msg EXCEPT ![m] =
                            [IdleMsg EXCEPT
                               !.pc = AfterVerdict(v),
                               !.user = user,
                               !.text = text,
                               !.textblob = IF TextBlobRuns(text) THEN blob ELSE @,
                               !.analysed = ~v.raised,
                               !.keywords_data = keywords_data,
                               !.detected = v.detected,
                               !.score = v.score,
                               !.should_filter = v.should_filter,
                               !.removed_at_start = removed]]
               /\ LogLoad
  /\ UNCHANGED <<call, config_vars, disk, bot_write, web, reply, ever_saved, removed>>

\* message.delete() with its exception swallowed: the handler goes on
MsgDeleteSwallow(m, ok) ==
  /\ BotThreadFree
  /\ msg[m].pc = "delete"
  /\ msg' = [msg EXCEPT ![m].pc = "warn", ![m].deleted = ok]
  /\ UNCHANGED <<call, config_vars, disk, bot_write, web, ops, reply, ever_saved, removed,
                 load_log>>

\* await message.delete(): it succeeds, or raises into the except of line 233
MsgDelete(m, ok) ==
  /\ BotThreadFree
  /\ msg[m].pc = "delete"
  /\ msg' = [msg EXCEPT ![m].pc = IF ok THEN "warn" ELSE "done",
                        ![m].deleted = ok]
  /\ UNCHANGED <<call, config_vars, disk, bot_write, web, ops, reply, ever_saved, removed,
                 load_log>>

\* The loop of lines 213-215 over the list loaded at line 153
CountDetections(keywords_data, detected_keywords) ==
  [i \in 1..Len(keywords_data) |->
     IF keywords_data[i].keyword \in Range(detected_keywords)
       THEN [keywords_data[i] EXCEPT !.detection_count = @ + 1]
       ELSE keywords_data[i]]

WarnOutcomes == {"send_fails", "no_job_queue", "ok"}

\* Lines 200-217: send the warning, schedule its cleanup, count, open the file
MsgWarn(m, outcome) ==
  /\ BotThreadFree
  /\ msg[m].pc = "warn"
  /\ IF outcome = "ok"
       THEN /\ msg' = [msg EXCEPT ![m].pc = "saving",
                                  ![m].warned = TRUE,
                                  ![m].scheduled = TRUE]
            /\ bot_write' = [open |-> TRUE, owner |-> "msg", m |-> m,
                             keyword |-> <<>>,
                             data |-> CountDetections(msg[m].keywords_data,
                                                      msg[m].detected),
                             before |-> disk]
            /\ disk' = Truncated
       ELSE /\ msg' = [msg EXCEPT ![m].pc = "done",
                                  ![m].warned = (outcome = "no_job_queue")]
            /\ UNCHANGED <<bot_write, disk>>
  /\ UNCHANGED <<call, config_vars, web, ops, reply, ever_saved, removed, load_log>>

----------------------------------------------------------------------------
(* add_keyword_handler and remove_keyword_handler *)

NewKeyword(keyword, user) ==
  [keyword |-> keyword, added_by |-> user, is_active |-> TRUE, detection_count |-> 0]

\* " ".join(context.args).strip(), without the lower()
CommandKeywordNoLower(raw) == str_strip(join_space(str_split(raw)))

\* " ".join(context.args).lower().strip()
CommandKeyword(raw) == str_strip(str_lower(join_space(str_split(raw))))

\* A keyword command has built its list and calls save_json_data
BotSave(owner, keyword, data) ==
  /\ bot_write' = [open |-> FALSE, owner |-> owner, m |-> 0, keyword |-> keyword,
                   data |-> data, before |-> Truncated]
  /\ UNCHANGED disk

\* open(filepath, 'w') of the save of a keyword command. The web server's
\* threads run between the command's load and this open.
BotOpen ==
  /\ phase = "running"
  /\ bot_write.owner \in {"add", "remove"}
  /\ ~bot_write.open
  /\ bot_write' = [bot_write EXCEPT !.open = TRUE, !.before = disk]
  /\ disk' = Truncated
  /\ UNCHANGED <<call, config_vars, msg, web, ops, reply, ever_saved, removed, load_log>>

add_keyword_handler(user, raw) ==
  /\ BotCanStart
  /\ ops > 0
  /\ ops' = ops - 1
  /\ LET keyword == CommandKeyword(raw)
         keywords == load_json_data
     IN IF ~is_admin(user)
          THEN reply' = "need_admin" /\ UNCHANGED <<disk, bot_write, load_log>>
        ELSE IF str_split(raw) = <<>>
          THEN reply' = "usage" /\ UNCHANGED <<disk, bot_write, load_log>>
        ELSE IF Len(keyword) < 2
          THEN reply' = "too_short" /\ UNCHANGED <<disk, bot_write, load_log>>
        ELSE IF \E i \in 1..Len(keywords) : str_lower(keywords[i].keyword) = keyword
          THEN reply' = "exists" /\ LogLoad /\ UNCHANGED <<disk, bot_write>>
        ELSE /\ BotSave("add", keyword, Append(keywords, NewKeyword(keyword, user)))
             /\ LogLoad
             /\ UNCHANGED reply
  /\ UNCHANGED <<call, config_vars, msg, web, ever_saved, removed>>

\* The loop of lines 313-317: the soft delete
Deactivate(keywords, keyword) ==
  [i \in 1..Len(keywords) |->
     IF str_lower(keywords[i].keyword) = keyword
       THEN [keywords[i] EXCEPT !.is_active = FALSE]
       ELSE keywords[i]]

remove_keyword_handler(user, raw) ==
  /\ BotCanStart
  /\ ops > 0
  /\ ops' = ops - 1
  /\ LET keyword == CommandKeyword(raw)
         keywords == load_json_data
     IN IF ~is_admin(user)
          THEN reply' = "need_admin" /\ UNCHANGED <<disk, bot_write, load_log>>
        ELSE IF str_split(raw) = <<>>
          THEN reply' = "usage" /\ UNCHANGED <<disk, bot_write, load_log>>
        ELSE IF ~\E i \in 1..Len(keywords) : str_lower(keywords[i].keyword) = keyword
          THEN reply' = "not_found" /\ LogLoad /\ UNCHANGED <<disk, bot_write>>
        ELSE /\ BotSave("remove", keyword, Deactivate(keywords, keyword))
             /\ LogLoad
             /\ UNCHANGED reply
  /\ UNCHANGED <<call, config_vars, msg, web, ever_saved, removed>>

\* json.dump and close of the save the bot thread is in, and what follows it
BotWriteClose ==
  /\ phase = "running"
  /\ bot_write.open
  /\ disk' = Closed(bot_write.data)
  /\ ever_saved' = Saved(Closed(bot_write.data))
  /\ bot_write' = NoWrite
  /\ msg' = IF bot_write.owner = "msg"
              THEN [msg EXCEPT ![bot_write.m].pc = "done",
                               ![bot_write.m].counted = TRUE]
              ELSE msg
  /\ reply' = IF bot_write.owner = "add" THEN "added"
              ELSE IF bot_write.owner = "remove" THEN "removed"
              ELSE reply
  /\ removed' = IF bot_write.owner = "remove"
                  THEN removed \cup {bot_write.keyword} ELSE removed
  /\ UNCHANGED <<call, config_vars, web, ops, load_log>>

----------------------------------------------------------------------------
(* web_server.api_add_keyword, in a thread of the web server *)

\* Lines 323-350: validate, load, look for the keyword, append
WebAddStart(w, raw) ==
  /\ phase = "running"
  /\ web[w].pc = "idle"
  /\ w > 1 => web[w - 1].pc # "idle"
  /\ ops > 0
  /\ ops' = ops - 1
  /\ LET keyword == str_lower(str_strip(raw))
         keywords == load_json_data
     IN IF keyword = <<>> \/ Len(keyword) < 2
          THEN /\ web' = [web EXCEPT ![w].pc = "done", ![w].status = 400]
               /\ UNCHANGED load_log
        ELSE IF \E i \in 1..Len(keywords) : keywords[i].keyword = keyword
          THEN /\ web' = [web EXCEPT ![w].pc = "done", ![w].status = 400]
               /\ LogLoad
        ELSE /\ web' = [web EXCEPT ![w].pc = "loaded",
                                   ![w].keywords = Append(keywords, NewKeyword(keyword, 0))]
             /\ LogLoad
  /\ UNCHANGED <<call, config_vars, disk, bot_write, msg, reply, ever_saved, removed>>

\* open(filepath, 'w') of the save of line 352
WebAddOpen(w) ==
  /\ web[w].pc = "loaded"
  /\ web' = [web EXCEPT ![w].pc = "writing", ![w].before = disk]
  /\ disk' = Truncated
  /\ UNCHANGED <<call, config_vars, bot_write, msg, ops, reply, ever_saved, removed, load_log>>

\* json.dump and close of the save of line 352, and the response
WebAddClose(w) ==
  /\ web[w].pc = "writing"
  /\ disk' = Closed(web[w].keywords)
  /\ ever_saved' = Saved(Closed(web[w].keywords))
  /\ web' = [web EXCEPT ![w].pc = "done", ![w].status = 200]
  /\ UNCHANGED <<call, config_vars, bot_write, msg, ops, reply, removed, load_log>>

----------------------------------------------------------------------------
(* The functions of the filter, each called on its own *)

\* Stored lists the verdict is computed over: none, one active keyword, one
\* removed keyword
StoredLists ==
  {<<>>,
   <<[keyword |-> StoredKeyword, added_by |-> 1001, is_active |-> TRUE,
      detection_count |-> 0]>>,
   <<[keyword |-> StoredKeyword, added_by |-> 1001, is_active |-> FALSE,
      detection_count |-> 0]>>}

\* The calls: the function and its arguments
Calls ==
  {[NoCall EXCEPT !.fn = "preprocess_text", !.text = s] :
     s \in StringsUpTo(MaxLen) \cup TableTexts}
  \cup
  {[NoCall EXCEPT !.fn = "keyword_detection", !.text = a[1], !.keywords = a[2]] :
     a \in TableTexts \X (ListsUpTo(MaxKeywords) \cup {DEFAULT_COPYRIGHT_KEYWORDS})}
  \cup
  {[NoCall EXCEPT !.fn = "risk_score", !.pattern_matches = a[1],
                  !.total_words = a[2], !.polarity = a[3]] :
     a \in (0..Len(copyright_patterns)) \X (1..MaxWords) \X Polarities}
  \cup
  {[NoCall EXCEPT !.fn = "ai_content_analysis", !.available = a[1],
                  !.enabled = a[2], !.text = a[3], !.blob = a[4]] :
     a \in BOOLEAN \X BOOLEAN \X TableTexts \X Blobs}
  \cup
  {[NoCall EXCEPT !.fn = "verdict", !.available = a[1], !.enabled = a[2],
                  !.threshold = a[3], !.keywords_data = a[4], !.text = a[5],
                  !.blob = a[6]] :
     a \in BOOLEAN \X BOOLEAN \X {30, 70} \X StoredLists
             \X (TableTexts \ {<<>>}) \X Blobs}
  \cup
  {[NoCall EXCEPT !.fn = a[1], !.available = a[2][1], !.enabled = a[2][2],
                  !.threshold = a[2][3], !.keywords_data = a[2][4],
                  !.text = a[2][5], !.blob = a[2][6]] :
     a \in {"testai", "api_test_ai"}
             \X (BOOLEAN \X BOOLEAN \X {30, 70} \X StoredLists
                   \X (TableTexts \ {<<>>}) \X Blobs)}

\* The bot is not running; one function is about to be called
InitFunctions ==
  /\ Boot
  /\ AI_AVAILABLE
  /\ ~concurrent_updates
  /\ env = [threshold |-> [kind |-> "unset", value |-> 0], ai_enabled |-> <<>>]
  /\ ops = 0
  /\ disk = FileOf(<<>>)
  /\ ever_saved = {}
  /\ call \in Calls

Returns(fn) == call.fn = fn /\ ~call.done

CallPreprocess ==
  /\ Returns("preprocess_text")
  /\ call' = [call EXCEPT !.done = TRUE, !.processed_text = preprocess_text(call.text)]
  /\ UNCHANGED machine_vars

CallKeywordDetection ==
  /\ Returns("keyword_detection")
  /\ call' = [call EXCEPT !.done = TRUE,
                          !.detected = keyword_detection(call.text, call.keywords)]
  /\ UNCHANGED machine_vars

\* Lines 102-123 on the signals of a processed text
CallRiskScore ==
  /\ Returns("risk_score")
  /\ call' = [call EXCEPT !.done = TRUE,
                          !.score = RiskScore(call.pattern_matches, call.total_words,
                                              call.polarity)]
  /\ UNCHANGED machine_vars

CallAiContentAnalysis ==
  /\ Returns("ai_content_analysis")
  /\ LET r == AiContentAnalysis(call.available, call.enabled, call.text, call.blob)
     IN call' = [call EXCEPT !.done = TRUE, !.score = r.score,
                             !.pattern_matches = r.pattern_matches]
  /\ UNCHANGED machine_vars

\* Lines 152-176 on a loaded list
CallVerdict ==
  /\ Returns("verdict")
  /\ LET v == Verdict(call.available, call.enabled, call.threshold,
                      call.keywords_data, call.text, call.blob)
     IN call' = [call EXCEPT !.done = TRUE, !.detected = v.detected,
                             !.score = v.score, !.should_filter = v.should_filter,
                             !.reasons = v.filter_reason]
  /\ UNCHANGED machine_vars

\* would_filter of test_ai_detection_handler (lines 387-420) for the text
\* " ".join(context.args)
TestAiWouldFilter(available, enabled, threshold, keywords_data, test_text, blob) ==
  LET detected_keywords ==
        keyword_detection(test_text, EffectiveKeywords(ActiveKeywords(keywords_data)))
      ai_analysis == AiContentAnalysis(available, enabled, test_text, blob)
  IN detected_keywords # <<>> \/ ScoreGE(ai_analysis.score, threshold)

\* The threshold api_test_ai compares the score with, in hundredths
ApiThreshold == 70

\* would_filter of api_test_ai (lines 374-386) for the stripped text
ApiTestAiWouldFilter(available, enabled, keywords_data, text, blob) ==
  LET detected_keywords ==
        keyword_detection(text, EffectiveKeywords(ActiveKeywords(keywords_data)))
      ai_analysis == AiContentAnalysis(available, enabled, text, blob)
  IN detected_keywords # <<>> \/ ScoreGE(ai_analysis.score, ApiThreshold)

\* /testai <text> sent by an admin: the usage reply when there is no word,
\* else the test results
CallTestAi ==
  /\ Returns("testai")
  /\ LET args == str_split(call.text)
         test_text == join_space(args)
     IN call' = IF args = <<>>
                  THEN [call EXCEPT !.done = TRUE]
                  ELSE [call EXCEPT
                          !.done = TRUE, !.answered = TRUE,
                          !.should_filter =
                             TestAiWouldFilter(call.available, call.enabled,
                                               call.threshold, call.keywords_data,
                                               test_text, call.blob)]
  /\ UNCHANGED machine_vars

\* POST /api/test-ai {text}: 400 when the stripped text is empty, else the
\* result
CallApiTestAi ==
  /\ Returns("api_test_ai")
  /\ LET text == str_strip(call.text)
     IN call' = IF text = <<>>
                  THEN [call EXCEPT !.done = TRUE]
                  ELSE [call EXCEPT
                          !.done = TRUE, !.answered = TRUE,
                          !.should_filter =
                             ApiTestAiWouldFilter(call.available, call.enabled,
                                                  call.keywords_data, text,
                                                  call.blob)]
  /\ UNCHANGED machine_vars

NextFunctions ==
  \/ CallPreprocess
  \/ CallKeywordDetection
  \/ CallRiskScore
  \/ CallAiContentAnalysis
  \/ CallVerdict
  \/ CallTestAi
  \/ CallApiTestAi

SpecFunctions == InitFunctions /\ [][NextFunctions]_vars

----------------------------------------------------------------------------

Next ==
  \/ LoadConfig
  \/ \E m \in Msgs, u \in Users, t \in Texts, b \in Blobs : MsgStart(m, u, t, b)
  \/ \E m \in Msgs, ok \in BOOLEAN : MsgDelete(m, ok)
  \/ \E m \in Msgs, o \in WarnOutcomes : MsgWarn(m, o)
  \/ \E u \in Users, k \in KeywordInputs : add_keyword_handler(u, k)
  \/ \E u \in Users, k \in KeywordInputs : remove_keyword_handler(u, k)
  \/ BotOpen
  \/ BotWriteClose
  \/ \E w \in Webs, k \in KeywordInputs : WebAddStart(w, k)
  \/ \E w \in Webs : WebAddOpen(w)
  \/ \E w \in Webs : WebAddClose(w)

Spec == Init /\ [][Next]_vars

SpecStore == InitStore /\ [][Next]_vars

----------------------------------------------------------------------------
(* Properties *)

\* The AI analysis is skipped: the library is missing or the flag is off
AiSkipped == ~AI_AVAILABLE \/ ~AI_ENABLED

Neutral == [raises |-> FALSE, polarity |-> 0]

Analysed == {m \in Msgs : msg[m].analysed}

\* C1: a non-admin text message is filtered if and only if a keyword was
\* detected in it or its risk score is at least COPYRIGHT_THRESHOLD; with
\* neither signal it passes: it is not deleted and its handler is done.
C1_FilterIffKeywordOrScore ==
  \A m \in Analysed :
    /\ msg[m].detected # <<>> => msg[m].should_filter
    /\ ScoreGE(msg[m].score, COPYRIGHT_THRESHOLD) => msg[m].should_filter
    /\ (msg[m].detected = <<>> /\ ~ScoreGE(msg[m].score, COPYRIGHT_THRESHOLD))
         => (~msg[m].should_filter /\ msg[m].pc = "done" /\ ~msg[m].deleted)

\* One message filtered by its keywords alone and one by its score alone
C1_Witness ==
  \E m, n \in Analysed :
    /\ msg[m].detected # <<>> /\ ~ScoreGE(msg[m].score, COPYRIGHT_THRESHOLD)
    /\ msg[m].should_filter
    /\ msg[n].detected = <<>> /\ ScoreGE(msg[n].score, COPYRIGHT_THRESHOLD)
    /\ msg[n].should_filter /\ msg[n].score.num > 0

\* C2: when the list a message handler loaded has no active keyword (no
\* record, or only deactivated ones), the keywords detected are those of the
\* 18 default keywords that the text contains, and a text that contains one
\* is filtered.
C2_EmptyActiveUsesDefaults ==
  \A m \in Analysed :
    ActiveKeywords(msg[m].keywords_data) = <<>> =>
      /\ Len(DEFAULT_COPYRIGHT_KEYWORDS) = 18
      /\ msg[m].detected = keyword_detection(msg[m].text, DEFAULT_COPYRIGHT_KEYWORDS)
      /\ msg[m].detected # <<>> => msg[m].should_filter

\* A message with a default keyword, handled after every stored keyword was
\* removed, is filtered
C2_Witness ==
  \E m \in Analysed :
    /\ msg[m].keywords_data # <<>>
    /\ ActiveKeywords(msg[m].keywords_data) = <<>>
    /\ msg[m].detected # <<>>
    /\ msg[m].should_filter

\* C3: a message whose handling begins after /removekeyword k has succeeded
\* does not have k among its detected keywords (stated for the messages that
\* loaded an active stored keyword, so that the default list is not in use).
C3_RemovedNeverMatches ==
  \A m \in Analysed :
    ActiveKeywords(msg[m].keywords_data) # <<>> =>
      \A k \in msg[m].removed_at_start : k \notin Range(msg[m].detected)

\* C4: every keyword that was in a saved keywords.json is in the file in every
\* later state in which the file is readable.
C4_RecordsNeverLost ==
  disk.valid => ever_saved \subseteq KeywordTexts(disk.data)

\* C5: the detection count of a stored keyword is at least the number of
\* filtered messages, fully handled, that detected it and had its record in
\* the list they loaded (the count of a new record is 0).
C5_CountsAtLeastFiltered ==
  disk.valid =>
    \A i \in 1..Len(disk.data) :
      disk.data[i].detection_count >=
        Cardinality({m \in Msgs :
                       /\ msg[m].pc = "done"
                       /\ msg[m].counted
                       /\ disk.data[i].keyword \in Range(msg[m].detected)
                       /\ disk.data[i].keyword \in KeywordTexts(msg[m].keywords_data)})

\* C6: a load of keywords.json during a save returns the complete list of
\* before that save or the complete list of after it.
C6_LoadSeesBeforeOrAfter ==
  load_log.saves # {} =>
    \E s \in load_log.saves :
      \/ load_log.result = s.after
      \/ s.before.valid /\ load_log.result = s.before.data

\* The verdict of message m had the analysis run with a neutral polarity
NeutralVerdict(m) ==
  Verdict(TRUE, TRUE, COPYRIGHT_THRESHOLD, msg[m].keywords_data, msg[m].text, Neutral)

C8_SkippedDeletesOnlyOnKeyword ==
  \A m \in Analysed :
    (AiSkipped /\ COPYRIGHT_THRESHOLD \in 0..100 /\ msg[m].deleted)
      => msg[m].detected # <<>>

\* C9: no message is evaluated under a threshold outside [0, 1].
C9_ThresholdInRange ==
  \A m \in Analysed : COPYRIGHT_THRESHOLD \in 0..100

\* C10: no message handler ends in an exception of the analysis; when the
\* analysis is skipped or TextBlob raises, the score is 0.0, the keywords are
\* still detected and a detected keyword filters the message; the analysis
\* with the flag off and the library present is the analysis with the library
\* missing.
C10_AiFailsSoft ==
  \A m \in Msgs :
    /\ msg[m].pc # "failed"
    /\ (msg[m].pc # "idle" /\ msg[m].text # <<>> /\ ~is_admin(msg[m].user))
         => msg[m].analysed
    /\ msg[m].analysed =>
         /\ (AiSkipped \/ msg[m].textblob.raises) =>
              /\ msg[m].score.num = 0
              /\ msg[m].detected =
                   keyword_detection(msg[m].text,
                     EffectiveKeywords(ActiveKeywords(msg[m].keywords_data)))
              /\ msg[m].detected # <<>> => msg[m].should_filter
         /\ \A b \in Blobs, e \in BOOLEAN :
              AiContentAnalysis(TRUE, FALSE, msg[m].text, b)
                = AiContentAnalysis(FALSE, e, msg[m].text, b)

\* TextBlob raised on one message and the analysis was skipped for none: the
\* message with a keyword is still being filtered
C10_Witness ==
  \E m \in Analysed :
    /\ msg[m].textblob.raises
    /\ msg[m].detected # <<>>
    /\ msg[m].deleted

\* A call of fn has returned
Returned(fn) == call.fn = fn /\ call.done

\* C11: every risk score that the scoring of lines 102-123, ai_content_analysis
\* or the verdict returns is at least 0.0 and at most 1.0, for 0 to 5 matching
\* patterns, any number of words and any polarity.
C11_ScoreWithinUnitInterval ==
  (call.done /\ call.fn \in {"risk_score", "ai_content_analysis", "verdict"}) =>
    /\ call.score.den > 0
    /\ call.score.num >= 0
    /\ call.score.num <= call.score.den

\* All five patterns match a negative text of more than 20 words: the four
\* terms add up to 1.1 and the score returned is 1.0
C11_Witness ==
  /\ Returned("risk_score")
  /\ call.pattern_matches = 5 /\ call.total_words > 20 /\ call.polarity < -30
  /\ call.score.num = call.score.den

\* C12: a message without text or with nothing but whitespace is handled
\* without an error and passes: its processed text is empty, its score is 0.0,
\* no keyword is detected, it is not deleted and no warning is posted.
C12_BlankMessagePasses ==
  \A m \in Msgs :
    (msg[m].pc # "idle" /\ str_strip(msg[m].text) = <<>>) =>
      /\ msg[m].pc # "failed"
      /\ TextSignals(msg[m].text).processed_text = <<>>
      /\ msg[m].score.num = 0
      /\ msg[m].detected = <<>>
      /\ ~msg[m].should_filter
      /\ ~msg[m].deleted
      /\ ~msg[m].warned

\* C13: with the default keywords in effect (the loaded list has no active
\* keyword) and the threshold 0.7, the verdict of "Download the latest movie
\* for free here" has a detected keyword and should_filter is true (stated
\* for the analysis on, the configuration in which the score is computed).
C13_MovieTextIsFiltered ==
  (/\ Returned("verdict")
   /\ call.text = MovieText
   /\ call.available /\ call.enabled
   /\ ActiveKeywords(call.keywords_data) = <<>>
   /\ call.threshold = 70)
    => (call.detected # <<>> /\ call.should_filter)

\* k occurs in t as a run of adjacent characters
Contains(t, k) ==
  \E a \in 0..(Len(t) - Len(k)) : SubSeq(t, a + 1, a + Len(k)) = k

\* The keywords in effect for a call of the verdict
CallKeywords == EffectiveKeywords(ActiveKeywords(call.keywords_data))

\* C14: at the threshold 0.7, a text that contains none of the keywords in
\* effect (ignoring case) and that none of the five risk patterns matches has
\* no detected keyword, a score of at most 0.2 and is not filtered.
C14_CleanTextPasses ==
  (/\ Returned("verdict")
   /\ call.threshold = 70
   /\ \A i \in 1..Len(CallKeywords) :
        ~Contains(str_lower(call.text), str_lower(CallKeywords[i]))
   /\ TextSignals(call.text).pattern_matches = 0)
    => /\ call.detected = <<>>
       /\ call.score.num * 100 <= 20 * call.score.den
       /\ ~call.should_filter

\* "Hello, how are you today?" with the default keywords and a negative
\* polarity: the score is 0.2 and the message passes
C14_Witness ==
  /\ Returned("verdict")
  /\ call.text = HelloText
  /\ call.keywords_data = <<>>
  /\ call.threshold = 70
  /\ call.score.num * 100 = 20 * call.score.den
  /\ call.detected = <<>>
  /\ ~call.should_filter

\* The texts of a list, ignoring case
FoldedTexts(keywords) == {str_lower(keywords[i].keyword) : i \in 1..Len(keywords)}

\* The texts that have a record in the store: those of the file or, while
\* saves are rewriting it, those that are in the list before and in the list
\* after every such save
StoredTexts ==
  IF disk.valid THEN FoldedTexts(disk.data)
  ELSE {k \in UNION {FoldedTexts(s.after) : s \in OpenSaves} :
          \A s \in OpenSaves :
            s.before.valid /\ k \in FoldedTexts(s.before.data) /\ k \in FoldedTexts(s.after)}

\* /addkeyword goes on to save a list with a new record
BotAddAccepted == bot_write.owner = "none" /\ bot_write'.owner = "add"

\* POST /api/add-keyword goes on to save a list with a new record
WebAddAccepted(w) == web[w].pc = "idle" /\ web'[w].pc = "loaded"

\* C15: no two records of keywords.json have the same text ignoring case, and
\* an add (command or web form) of a text that has a record is rejected and
\* leaves the file as it is.
C15_AddsKeepTextsUnique ==
  /\ [](disk.valid =>
          \A i, j \in 1..Len(disk.data) :
            i # j => str_lower(disk.data[i].keyword) # str_lower(disk.data[j].keyword))
  /\ [][/\ BotAddAccepted => bot_write'.keyword \notin StoredTexts
        /\ \A w \in Webs :
             WebAddAccepted(w) =>
               str_lower(web'[w].keywords[Len(web'[w].keywords)].keyword)
                 \notin StoredTexts
        /\ (reply' = "exists" /\ reply # "exists") => disk' = disk
        /\ \A w \in Webs : (web[w].pc = "idle" /\ web'[w].status = 400) => disk' = disk
       ]_vars

\* The list new is the list old with nothing changed but the is_active flag
\* of the records with the text k, which is false
OnlyDeactivated(old, new, k) ==
  /\ Len(new) = Len(old)
  /\ \A i \in 1..Len(old) :
       /\ new[i].keyword = old[i].keyword
       /\ new[i].added_by = old[i].added_by
       /\ new[i].detection_count = old[i].detection_count
       /\ new[i].is_active =
            IF str_lower(old[i].keyword) = k THEN FALSE ELSE old[i].is_active

\* The save of a /removekeyword completes
RemoveSaved ==
  bot_write.open /\ bot_write.owner = "remove" /\ ~bot_write'.open

\* C16: the file a successful /removekeyword k leaves, when it is readable, is
\* the file it found when it opened it, with nothing changed but the
\* is_active flag of k: the detection counts, the other records and their
\* order are the same; a /removekeyword that replies "not found" writes
\* nothing.
C16_RemoveChangesOnlyTheFlag ==
  [][/\ (RemoveSaved /\ bot_write.before.valid /\ disk'.valid) =>
          OnlyDeactivated(bot_write.before.data, disk'.data, bot_write.keyword)
     /\ (reply # "not_found" /\ reply' = "not_found") =>
          (disk' = disk /\ bot_write' = bot_write)
    ]_vars

\* The save at the end of a message handler completes
MessageSaved ==
  bot_write.open /\ bot_write.owner = "msg" /\ ~bot_write'.open

\* C17: no step of the handling of a message changes the configuration or the
\* active keywords of the store: the file a message handler leaves, when it
\* is readable, has the active keywords of the file it found when it opened it.
C17_MessagesLeaveKeywordsAlone ==
  [][/\ (\E m \in Msgs : msg'[m] # msg[m]) =>
          /\ COPYRIGHT_THRESHOLD' = COPYRIGHT_THRESHOLD
          /\ AI_ENABLED' = AI_ENABLED
          /\ AI_AVAILABLE' = AI_AVAILABLE
     /\ (MessageSaved /\ bot_write.before.valid /\ disk'.valid) =>
          ActiveKeywords(disk'.data) = ActiveKeywords(bot_write.before.data)
    ]_vars

\* max(wordCount, 1)
AtLeastOneWord(w) == IF w > 1 THEN w ELSE 1

\* The specification's aggregate, in units of 1 / (50 * max(wordCount, 1)):
\* the pattern term (p / 5) * 0.4, the sentiment term 0.2, the verbosity term
\* 0.2, the density term min((p / max(w, 1)) * 2, 0.3), and the sum clamped
\* to 1.0
Aggregate(p, w, polarity) ==
  LET unit == AtLeastOneWord(w)
      P == 4 * p * unit
      S == IF polarity < -30 THEN 10 * unit ELSE 0
      V == IF w > 20 /\ p > 0 THEN 10 * unit ELSE 0
      D == IF 100 * p <= 15 * unit THEN 100 * p ELSE 15 * unit
      sum == P + S + V + D
  IN [num |-> IF sum <= 50 * unit THEN sum ELSE 50 * unit, den |-> 50 * unit]

\* C18: the score computed for p matching patterns, w >= 1 words and a
\* polarity is min(P + S + V + D, 1.0) of the specification's four terms; so
\* is the score ai_content_analysis returns when it runs TextBlob on a
\* non-empty processed text.
C18_ScoreIsTheAggregate ==
  /\ Returned("risk_score") =>
       ScoreEq(call.score,
               Aggregate(call.pattern_matches, call.total_words, call.polarity))
  /\ (/\ Returned("ai_content_analysis")
      /\ call.available /\ call.enabled /\ ~call.blob.raises
      /\ TextSignals(call.text).processed_text # <<>>)
       => ScoreEq(call.score,
                  Aggregate(TextSignals(call.text).pattern_matches,
                            TextSignals(call.text).total_words,
                            call.blob.polarity))

\* A negative text of more than 20 words that one pattern matches: the four
\* terms are all above 0 and their sum is below 1.0
C18_Witness ==
  /\ Returned("risk_score")
  /\ call.pattern_matches = 1 /\ call.total_words > 20 /\ call.polarity < -30
  /\ call.score.num < call.score.den
  /\ call.score.num * 100 > 48 * call.score.den

C20_ProcessedTextIsNormal ==
  Returned("preprocess_text") =>
    LET out == call.processed_text
    IN /\ \A i \in 1..Len(out) : out[i] \in Range(LowerAlpha) \cup DigitChars \cup {" "}
       /\ \A i \in 1..(Len(out) - 1) : ~(out[i] = " " /\ out[i + 1] = " ")
       /\ out # <<>> => (out[1] # " " /\ out[Len(out)] # " ")
       /\ (\A i \in 1..Len(call.text) : call.text[i] \in Whitespace) => out = <<>>

\* "See HTTP://t.me/x?a=1 now" becomes "see now": lowered, the URL removed,
\* the whitespace collapsed
C20_Witness ==
  /\ Returned("preprocess_text")
  /\ call.text = UrlText
  /\ call.processed_text = <<"s", "e", "e", " ", "n", "o", "w">>

----------------------------------------------------------------------------
(* The steps of a filtered message *)

\* The save of message handler m is under way
MsgSaving(m) == bot_write.owner = "msg" /\ bot_write.m = m

\* C21: the steps of a filtered message come in one order, each only after
\* the one before it has succeeded: a warning is posted only for a deleted
\* message, the counts are written only after the warning is posted and its
\* cleanup scheduled, and a handler whose deletion failed posts no warning
\* and writes no count.
C21_StepsInOrder ==
  /\ \A m \in Msgs :
       /\ msg[m].deleted => msg[m].should_filter
       /\ msg[m].warned => msg[m].deleted
       /\ msg[m].scheduled => msg[m].warned
       /\ MsgSaving(m) => msg[m].warned /\ msg[m].scheduled
       /\ msg[m].counted => msg[m].warned /\ msg[m].scheduled
       /\ (msg[m].pc = "done" /\ ~msg[m].deleted) =>
            ~msg[m].warned /\ ~msg[m].counted /\ ~MsgSaving(m)
  /\ bot_write.owner = "msg" => bot_write.m \in Msgs

\* One message went through every step, and the deletion of another failed
C21_Witness ==
  \E m, n \in Msgs :
    /\ msg[m].counted /\ msg[m].deleted /\ msg[m].warned /\ msg[m].scheduled
    /\ msg[n].pc = "done" /\ msg[n].should_filter /\ ~msg[n].deleted

----------------------------------------------------------------------------
(* Detection counts *)

\* No record of old has a smaller detection_count in new
NoCountDecrease(old, new) ==
  \A i \in 1..Len(old), j \in 1..Len(new) :
    old[i].keyword = new[j].keyword =>
      new[j].detection_count >= old[i].detection_count

\* The files that the saves completing in this step replace: what each save
\* found when it opened keywords.json
Replaced ==
  (IF bot_write.open /\ bot_write'.owner = "none" THEN {bot_write.before} ELSE {})
  \cup {web[w].before : w \in {v \in Webs : web[v].pc = "writing" /\ web'[v].pc = "done"}}

\* C22: the detection_count of every stored record is an integer >= 0, and
\* no save (of a filtered message, an add or a remove, in any interleaving)
\* replaces a stored list by one in which a record has a smaller count.
C22_CountsNeverDecrease ==
  /\ [](disk.valid =>
          \A i \in 1..Len(disk.data) : disk.data[i].detection_count \in Nat)
  /\ [][\A before \in Replaced :
           (before.valid /\ disk'.valid) =>
             NoCountDecrease(before.data, disk'.data)]_vars

----------------------------------------------------------------------------
(* Removed keywords *)

\* No keyword that old holds deactivated is active in new
NoReactivation(old, new) ==
  \A i \in 1..Len(old), j \in 1..Len(new) :
    (old[i].keyword = new[j].keyword /\ ~old[i].is_active) => ~new[j].is_active

\* C23: is_active never goes from false back to true: no save (of a filtered
\* message, /addkeyword, /removekeyword or the web form) replaces a stored
\* list by one in which a deactivated keyword is active again.
C23_RemovedStaysRemoved ==
  [][\A before \in Replaced :
       (before.valid /\ disk'.valid) => NoReactivation(before.data, disk'.data)]_vars

----------------------------------------------------------------------------
(* Messages of admins *)

\* The user is a super admin or has an active record in admins.json
ActiveAdmin(u) ==
  \/ u \in SUPER_ADMINS
  \/ [user_id |-> u, is_active |-> TRUE] \in Range(admins_json)

\* The user has a record in admins.json that is deactivated, and nothing else
DeactivatedAdmin(u) ==
  /\ ~ActiveAdmin(u)
  /\ [user_id |-> u, is_active |-> FALSE] \in Range(admins_json)

----------------------------------------------------------------------------
(* Messages that pass *)

\* Handler m has returned with the verdict 'pass'
Passed(m) == msg[m].analysed /\ ~msg[m].should_filter

\* C25: handling a message whose verdict is 'pass' has no effect: the step
\* that decides it leaves keywords.json and the bot's save alone, the
\* handler is finished with that step and does nothing later, and the message
\* is not deleted, no warning is posted, no cleanup is scheduled, no count is
\* saved.
C25_PassHasNoEffect ==
  /\ [](\A m \in Msgs :
          Passed(m) =>
            /\ msg[m].pc = "done"
            /\ ~msg[m].deleted /\ ~msg[m].warned /\ ~msg[m].scheduled
            /\ ~msg[m].counted /\ ~MsgSaving(m))
  /\ [][\A m \in Msgs :
          /\ (~Passed(m) /\ Passed(m)') => UNCHANGED <<disk, bot_write, ever_saved>>
          /\ Passed(m) => msg'[m] = msg[m]]_vars

\* A message has passed while keywords.json holds a keyword record
C25_Witness ==
  \E m \in Msgs :
    /\ Passed(m) /\ msg[m].text # <<>> /\ msg[m].keywords_data # <<>>
    /\ disk = FileOf(msg[m].keywords_data)

----------------------------------------------------------------------------
(* The test paths *)

\* should_filter of the live filter for the arguments of the call
LiveShouldFilter ==
  Verdict(call.available, call.enabled, call.threshold, call.keywords_data,
          call.text, call.blob).should_filter

\* C26: for the same text, keyword store and configuration, the would-filter
\* result of /testai and of POST /api/test-ai is the should_filter decision
\* of the live message filter.
C26_TestPathsAgree ==
  \A fn \in {"testai", "api_test_ai"} :
    (Returned(fn) /\ call.answered) => (call.should_filter <=> LiveShouldFilter)

----------------------------------------------------------------------------
(* The cleanup of warnings *)

\* C27: every warning posted for a filtered message has its cleanup job
\* scheduled: nothing between the post and the scheduling fails or yields, so
\* no posted warning is left without a scheduled cleanup.
C27_WarningHasCleanup ==
  \A m \in Msgs : msg[m].warned => msg[m].scheduled

----------------------------------------------------------------------------
(* The reasons of a verdict *)

\* The reasons of the given kind in the returned verdict
ReasonsOf(kind) == SelectSeq(call.reasons, LAMBDA r : r.kind = kind)

\* C28: the reasons hold a keyword reason iff keywords matched, and it names
\* the first three matched keywords at most, in match order; they hold an
\* AI-risk reason with the score (to the hundredth) iff the score reached
\* the threshold; the keyword reason comes first; a filtered message has at
\* least one reason, and there is no other reason.
C28_ReasonsFollowTheBranches ==
  Returned("verdict") =>
    LET by_keyword == ReasonsOf("Keywords")
        by_score == ReasonsOf("AI Risk")
        n == Len(call.detected)
    IN /\ Len(by_keyword) = (IF n > 0 THEN 1 ELSE 0)
       /\ n > 0 =>
            /\ Len(by_keyword[1].keywords) = (IF n > 3 THEN 3 ELSE n)
            /\ \A i \in 1..Len(by_keyword[1].keywords) :
                 by_keyword[1].keywords[i] = call.detected[i]
       /\ Len(by_score) = (IF ScoreGE(call.score, call.threshold) THEN 1 ELSE 0)
       /\ Len(by_score) = 1 =>
            LET shown == by_score[1].score
            IN /\ 2 * (shown * call.score.den - 100 * call.score.num) <= call.score.den
               /\ 2 * (100 * call.score.num - shown * call.score.den) <= call.score.den
       /\ Len(call.reasons) = Len(by_keyword) + Len(by_score)
       /\ (Len(by_keyword) = 1 /\ Len(by_score) = 1) =>
            call.reasons[1].kind = "Keywords" /\ call.reasons[2].kind = "AI Risk"
       /\ call.should_filter <=> call.reasons # <<>>

\* A verdict with more than three matched keywords and a score at the
\* threshold or above
C28_Witness ==
  /\ Returned("verdict")
  /\ Len(call.detected) > 3
  /\ ScoreGE(call.score, call.threshold)
  /\ call.should_filter

----------------------------------------------------------------------------
(* The pattern count *)

\* The analysis of the call got as far as the patterns
PatternsCounted ==
  /\ Returned("ai_content_analysis")
  /\ call.available /\ call.enabled /\ ~call.blob.raises
  /\ preprocess_text(call.text) # <<>>

\* C29: the pattern count is the number of the five risk patterns that match
\* the normalized text at least once: a pattern adds 1 at most, however often
\* it matches, so the count is between 0 and 5.
C29_CountIsPatternsThatMatch ==
  PatternsCounted =>
    /\ call.pattern_matches =
         Cardinality({p \in 1..Len(copyright_patterns) :
                        re_search(copyright_patterns[p], preprocess_text(call.text))})
    /\ call.pattern_matches \in 0..5

\* The analysis of a text that repeats a risk phrase has counted it once
C29_Witness ==
  /\ PatternsCounted
  /\ call.text = RepeatText
  /\ call.pattern_matches = 1

----------------------------------------------------------------------------
(* The texts of stored keywords *)

\* Lower case, no whitespace at either end, two characters at least
NormalKeyword(k) == k = str_lower(k) /\ k = str_strip(k) /\ Len(k) >= 2

\* A keyword command is answered with a refusal in this step: it does not
\* go on to save_json_data
CommandRefused ==
  /\ ops' = ops - 1 /\ msg' = msg /\ web' = web
  /\ bot_write'.owner = "none"
  /\ reply' \in {"need_admin", "usage", "too_short", "exists"}

\* The web form is answered with 400 in this step
WebRefused == \E w \in Webs : web[w].status = 0 /\ web'[w].status = 400

\* C30: every keyword text that /addkeyword or the web form stores is lower
\* case, has no whitespace at either end and has two characters at least, so
\* the empty string is never a stored keyword; and a refused add writes
\* nothing.
C30_StoredKeywordsAreNormal ==
  /\ [](/\ disk.valid =>
             \A i \in 1..Len(disk.data) : NormalKeyword(disk.data[i].keyword)
         /\ \A w \in Webs : web[w].status = 400 => web[w].pc = "done")
  /\ [][(CommandRefused \/ WebRefused) =>
          UNCHANGED <<disk, bot_write, ever_saved>>]_vars

\* A keyword typed with a capital and a leading space is stored, and a later
\* add of one character was refused
C30_Witness ==
  /\ disk.valid
  /\ \E i \in 1..Len(disk.data) :
       /\ disk.data[i].keyword = <<"l", "i", "n", "k">>
       /\ disk.data[i].added_by \in {0, 1001, 1002}
  /\ \/ reply = "too_short"
     \/ \E w \in Webs : web[w].status = 400

====
